---------------------------- MODULE Spec2Model ----------------------------
(***************************************************************************)
(* termproxy (src/src/main.rs): a single-connection terminal tunnel.  One  *)
(* client is accepted, its "user:ticket" line is verified against the      *)
(* ticket service, the command is spawned on a pseudo-terminal and the     *)
(* event loop of do_main proxies bytes in both directions.  Bytes are      *)
(* modelled as their ASCII codes, buffers as sequences of bytes.           *)
(***************************************************************************)
EXTENDS Integers, Sequences, FiniteSets, TLC

VARIABLES
    pc,               \* position of do_main
    exit_code,        \* value handed to std::process::exit (read once pc = "exit")
    overflow_checks,  \* the build: TRUE when arithmetic overflow panics (debug profile)
    client,           \* every byte the client is going to send, in order
    net_pos,          \* number of bytes of client already read from the TCP stream
    net_out,          \* bytes written to the TCP stream so far
    term,             \* every byte the command is going to print, in order
    term_pos,         \* number of bytes of term already read from the pty
    pty_buf,          \* network -> terminal ByteBuffer (also the ticket line buffer)
    tcp_buf,          \* terminal -> network ByteBuffer
    username,         \* first half of the ticket line
    ticket,           \* second half of the ticket line
    fail_step,        \* the handshake step that failed, "" when none did
    accepts,          \* connections accepted on the listener
    auth_requests,    \* POST requests sent to the ticket service
    spawns,           \* commands spawned
    tcp_readable,
    tcp_writable,
    pty_readable,
    pty_writable,
    remaining,        \* payload bytes of the current DATA message still to forward
    finished,
    ptyLog,           \* what reached the pty, in order: writes, resizes, DATA headers
    auth_status,      \* HTTP status the ticket service answered, 0 before any answer
    step,             \* what the last step of the program did (I/O call, codec call)
    at_finish,        \* <<term_pos, net_pos>> when finished was set
    seen,             \* what the number scanner has met so far: "nocolon", "parse"
    pass              \* the current pass of the loop: how it polled, what it did

vars == <<pc, exit_code, overflow_checks, client, net_pos, net_out, term, term_pos,
          pty_buf, tcp_buf, username, ticket, fail_step, accepts, auth_requests,
          spawns, tcp_readable, tcp_writable, pty_readable, pty_writable,
          remaining, finished, ptyLog, auth_status, step, at_finish, seen, pass>>

---------------------------------------------------------------------------
(* Bounds of the model.                                                    *)

\* Capacity of a ByteBuffer (4096 in proxmox_io), scaled down: room for a
\* RESIZE message and the DATA message behind it ("1:2:3:" "0:1:a"), and one
\* byte to spare so that a read can still be attempted with both buffered.
BufCap == 12

\* Longest run of filler bytes in the codec harness inputs (must exceed 20).
MaxPad == 22

\* Longest exhaustively enumerated codec harness input.
MaxLen == 4

---------------------------------------------------------------------------
(* Program constants.                                                      *)

MSG_TYPE_DATA == 0

MSG_TYPE_RESIZE == 1

\* b'0'
Zero == 48

\* b':'
Colon == 58

\* b'\n'
Newline == 10

\* remove_number skips when more than this many bytes hold no ':'
SkipLen == 20

\* u8 and u16 ranges
U8 == 256

U16 == 65536

\* the HTTP status authenticate accepts
HttpOk == 200

Min(a, b) == IF a < b THEN a ELSE b

---------------------------------------------------------------------------
(* proxmox_io::ByteBuffer, as the program uses it.                         *)

is_empty(buf) == Len(buf) = 0

is_full(buf) == Len(buf) >= BufCap

consume(buf, n) == SubSeq(buf, Min(n, Len(buf)) + 1, Len(buf))

remove_data(buf, n) == SubSeq(buf, 1, Min(n, Len(buf)))

\* free space a read_from can fill
free(buf) == IF Len(buf) >= BufCap THEN 0 ELSE BufCap - Len(buf)

\* iter().position(|&x| x == b): bytes before the first b; Len(s) when there is none
RECURSIVE position(_, _)
position(s, b) ==
    IF s = <<>> THEN 0
    ELSE IF Head(s) = b THEN 0
    ELSE 1 + position(Tail(s), b)

contains(s, b) == \E i \in 1..Len(s) : s[i] = b

---------------------------------------------------------------------------
(* str::parse::<usize> on the bytes of a number field.                     *)

IsDigit(b) == b >= Zero /\ b <= Zero + 9

RECURSIVE decimal(_)
decimal(d) ==
    IF d = <<>> THEN 0
    ELSE 10 * decimal(SubSeq(d, 1, Len(d) - 1)) + (d[Len(d)] - Zero)

\* an optional '+', then at least one digit, then nothing else
\* a plausible slip: a field that is no number read as 0
parse_lax(data) == [ok |-> TRUE, val |-> 0]

parse(data) ==
    LET d == IF data # <<>> /\ Head(data) = 43 THEN Tail(data) ELSE data
    IN  IF d = <<>> \/ \E i \in 1..Len(d) : ~IsDigit(d[i])
        THEN [ok |-> FALSE, val |-> 0]
        ELSE [ok |-> TRUE, val |-> decimal(d)]

---------------------------------------------------------------------------
(* The message framing codec.  The loops of the source are recursive       *)
(* operators; fuel counts their iterations, and a loop that has not        *)
(* returned when the fuel (one more than the buffered bytes) is spent is   *)
(* reported as "diverged".                                                 *)

\* buf[0] - b'0' on u8: wraps in a build without overflow checks
msgtype(b) == IF b >= Zero THEN b - Zero ELSE b - Zero + U8

\* buf[0] - b'0' panics in a build with overflow checks
tag_panics(b, checks) == checks /\ b < Zero

\* bytes dropped for a tag that is neither DATA nor RESIZE
tag_skip == 1

\* bytes dropped with a DATA or RESIZE tag: the tag and the separator
header_skip == 2

\* a plausible slip: a buffer of exactly 20 bytes skipped too
must_skip_ge(buf) == Len(buf) >= SkipLen

\* remove_number gives up on a buffer without ':' unless more than 20 bytes wait
must_skip(buf) == Len(buf) > SkipLen

\* a plausible slip: the skip consumes nothing
skip_bytes_none == SkipLen - SkipLen

\* buf.consume(20)
skip_bytes == 20

\* Result: some (a number was taken), val, buf (what is left), why
\*   "ok" | "parse" (field before ':' is no number) | "nocolon" | "diverged"
RECURSIVE remove_number_loop(_, _)
remove_number_loop(buf, fuel) ==
    IF fuel = 0
    THEN [some |-> FALSE, val |-> 0, buf |-> buf, why |-> "diverged"]
    ELSE IF contains(buf, Colon)
    THEN LET pos  == position(buf, Colon)
             data == remove_data(buf, pos)
             rest == consume(consume(buf, pos), 1)
             len  == parse(data)
         IN  IF len.ok
             THEN [some |-> TRUE, val |-> len.val, buf |-> rest, why |-> "ok"]
             ELSE [some |-> FALSE, val |-> 0, buf |-> rest, why |-> "parse"]
    ELSE IF must_skip(buf)
    THEN remove_number_loop(consume(buf, skip_bytes), fuel - 1)
    ELSE [some |-> FALSE, val |-> 0, buf |-> buf, why |-> "nocolon"]

remove_number(buf) == remove_number_loop(buf, Len(buf) + 1)

\* Result of process_queue: ret "some" | "none" | "panic" | "diverged", len (the
\* DATA length when ret = "some"), buf (what is left), resizes (the set_size
\* calls made, <<cols, rows, succeeded>>), notes (what the number scanner met).
\* failAt = k > 0: the k-th set_size call of this invocation fails.
RECURSIVE process_queue_loop(_, _, _, _, _, _)
process_queue_loop(buf, failAt, checks, resizes, notes, fuel) ==
    IF fuel = 0
    THEN [ret |-> "diverged", len |-> 0, buf |-> buf, resizes |-> resizes, notes |-> notes]
    ELSE IF Len(buf) < 2
    THEN [ret |-> "none", len |-> 0, buf |-> buf, resizes |-> resizes, notes |-> notes]
    ELSE IF tag_panics(buf[1], checks)
    THEN [ret |-> "panic", len |-> 0, buf |-> buf, resizes |-> resizes, notes |-> notes]
    ELSE IF msgtype(buf[1]) = MSG_TYPE_DATA
    THEN LET n == remove_number(consume(buf, header_skip))
         IN  IF n.some
             THEN [ret |-> "some", len |-> n.val, buf |-> n.buf,
                   resizes |-> resizes, notes |-> notes]
             ELSE IF n.why = "diverged"
             THEN [ret |-> "diverged", len |-> 0, buf |-> n.buf,
                   resizes |-> resizes, notes |-> notes]
             ELSE process_queue_loop(n.buf, failAt, checks, resizes,
                                     notes \cup {n.why}, fuel - 1)
    ELSE IF msgtype(buf[1]) = MSG_TYPE_RESIZE
    THEN LET cols == remove_number(consume(buf, header_skip))
             rows == remove_number(cols.buf)
         IN  IF ~cols.some
             THEN IF cols.why = "diverged"
                  THEN [ret |-> "diverged", len |-> 0, buf |-> cols.buf,
                        resizes |-> resizes, notes |-> notes]
                  ELSE process_queue_loop(cols.buf, failAt, checks, resizes,
                                          notes \cup {cols.why}, fuel - 1)
             ELSE IF ~rows.some
             THEN IF rows.why = "diverged"
                  THEN [ret |-> "diverged", len |-> 0, buf |-> rows.buf,
                        resizes |-> resizes, notes |-> notes]
                  ELSE process_queue_loop(rows.buf, failAt, checks, resizes,
                                          notes \cup {rows.why}, fuel - 1)
             ELSE LET ok == Len(resizes) + 1 # failAt
                      rs == Append(resizes, <<cols.val % U16, rows.val % U16, ok>>)
                  IN  IF ok
                      THEN process_queue_loop(rows.buf, failAt, checks, rs,
                                              notes, fuel - 1)
                      ELSE [ret |-> "none", len |-> 0, buf |-> rows.buf,
                            resizes |-> rs, notes |-> notes]
    ELSE process_queue_loop(consume(buf, tag_skip), failAt, checks, resizes,
                            notes, fuel - 1)

\* a plausible slip: a failed set_size unwrapped instead of ignored
process_queue_unwrap(buf, failAt, checks) ==
    LET r == IF is_empty(buf)
             THEN [ret |-> "none", len |-> 0, buf |-> buf, resizes |-> <<>>, notes |-> {}]
             ELSE process_queue_loop(buf, failAt, checks, <<>>, {}, Len(buf) + 1)
    IN  IF r.resizes # <<>> /\ ~r.resizes[Len(r.resizes)][3]
        THEN [r EXCEPT !.ret = "panic"]
        ELSE r

process_queue(buf, failAt, checks) ==
    IF is_empty(buf)
    THEN [ret |-> "none", len |-> 0, buf |-> buf, resizes |-> <<>>, notes |-> {}]
    ELSE process_queue_loop(buf, failAt, checks, <<>>, {}, Len(buf) + 1)

---------------------------------------------------------------------------
(* The environment: what the client sends, what the command prints, what   *)
(* the ticket service may answer.                                          *)

\* "u:t\n"
Cred == <<117, 58, 116, 10>>

\* "0:2:1:" "1:2:3:" "0:1:a": a payload that looks like a header, a resize
\* between two DATA messages
Framed == <<48, 58, 50, 58, 49, 58, 49, 58, 50, 58, 51, 58, 48, 58, 49, 58, 97>>

\* "2" "0:x:" "\n" "0:1:a": a ping, a number field that is no number, a byte
\* below '0', then a DATA message
Noisy == <<50, 48, 58, 120, 58, 10, 48, 58, 49, 58, 97>>

\* "0:1:a"
Short == <<48, 58, 49, 58, 97>>

\* what the command prints: "x", "xyz", or one byte more than a buffer holds
TermLong == [i \in 1..(BufCap + 1) |-> 64 + i]

\* what the client sends and what the command prints
Scenarios ==
    { <<Cred \o Framed, <<120>>>>,
      <<Cred \o Noisy, <<120>>>>,
      <<Cred \o Short, <<120, 121, 122>>>>,
      <<Cred, TermLong>>,
      <<<<117, 58, 116, 58, 118, 10, 48, 58, 49, 58, 97>>, <<>>>>,  \* "u:t:v\n0:1:a"
      <<<<117, 116, 10>>, <<>>>>,                                   \* "ut\n": no colon
      <<<<117, 255, 58, 116, 10>>, <<>>>>,                          \* not UTF-8
      <<[i \in 1..(BufCap + 1) |-> 97], <<>>>>,                      \* no newline at all
      <<<<>>, <<>>>> }

HttpStatuses == {200, 204, 403, 500}

\* "OK"
Ack == <<79, 75>>

\* the bytes of client that follow the ticket line
ProxyStart(c) == IF contains(c, Newline) THEN position(c, Newline) + 1 ELSE Len(c)

\* The build matters only to a client that sends a byte below '0' after its
\* ticket line: buf[0] - b'0' cannot overflow on the bytes of the others.
Builds(c) ==
    IF \E i \in (ProxyStart(c) + 1)..Len(c) : c[i] < Zero THEN BOOLEAN ELSE {FALSE}

\* no poll made yet
NoPass == [nowait |-> FALSE, moved |-> FALSE]

NoStep == [io |-> "none", full |-> FALSE, codec |-> "no", rem |-> 0,
           before |-> 0, after |-> 0, notes |-> {}]

Init ==
    /\ pc = "accept"
    /\ exit_code = 0
    /\ \E sc \in Scenarios :
         /\ client = sc[1]
         /\ term = sc[2]
         /\ overflow_checks \in Builds(sc[1])
    /\ net_pos = 0
    /\ net_out = <<>>
    /\ term_pos = 0
    /\ pty_buf = <<>>
    /\ tcp_buf = <<>>
    /\ username = <<>>
    /\ ticket = <<>>
    /\ fail_step = ""
    /\ accepts = 0
    /\ auth_requests = 0
    /\ spawns = 0
    /\ tcp_readable = FALSE
    /\ tcp_writable = FALSE
    /\ pty_readable = FALSE
    /\ pty_writable = FALSE
    /\ remaining = 0
    /\ finished = FALSE
    /\ ptyLog = <<>>
    /\ auth_status = 0
    /\ step = NoStep
    /\ at_finish = <<0, 0>>
    /\ seen = {}
    /\ pass = NoPass

env_vars == <<overflow_checks, client, term>>

loop_vars == <<tcp_readable, tcp_writable, pty_readable, pty_writable,
               remaining, finished, at_finish>>

\* do_main returns Err: main prints it and exits with 1
Fail(why) ==
    /\ pc' = "exit"
    /\ exit_code' = 1
    /\ fail_step' = why

---------------------------------------------------------------------------
(* The connection gate.                                                    *)

\* listen_and_accept, with its 10 s deadline
listen_and_accept ==
    /\ UNCHANGED pass
    /\ pc = "accept"
    /\ step' = NoStep
    /\ UNCHANGED <<env_vars, net_pos, net_out, term_pos, pty_buf,
                   tcp_buf, username, ticket, auth_requests, spawns, loop_vars,
                   ptyLog, auth_status, seen>>
    /\ \/ /\ accepts' = accepts + 1
          /\ pc' = "read_ticket"
          /\ UNCHANGED <<exit_code, fail_step>>
       \/ /\ Fail("accept_timeout")
          /\ UNCHANGED accepts
       \/ /\ Fail("accept_error")
          /\ UNCHANGED accepts

\* a plausible slip: a line without ':' taken as a username with an empty ticket
split_ticket_lax(line) ==
    [ok |-> TRUE,
     username |-> SubSeq(line, 1, position(line, Colon)),
     ticket |-> SubSeq(line, position(line, Colon) + 2, Len(line))]

\* a plausible slip: the line split at its last ':'
split_ticket_last(line) ==
    IF contains(line, Colon)
    THEN LET pos == CHOOSE i \in 1..Len(line) :
                        line[i] = Colon /\ \A j \in (i + 1)..Len(line) : line[j] # Colon
         IN  [ok |-> TRUE,
              username |-> SubSeq(line, 1, pos - 1),
              ticket |-> SubSeq(line, pos + 1, Len(line))]
    ELSE [ok |-> FALSE, username |-> <<>>, ticket |-> <<>>]

\* line.split_at(first ':'): username before it, ticket after it
split_ticket(line) ==
    IF contains(line, Colon)
    THEN [ok |-> TRUE,
          username |-> SubSeq(line, 1, position(line, Colon)),
          ticket |-> SubSeq(line, position(line, Colon) + 2, Len(line))]
    ELSE [ok |-> FALSE, username |-> <<>>, ticket |-> <<>>]

\* a plausible slip: what was read behind the newline dropped with the line
take_line_all(buf) ==
    LET idx  == position(buf, Newline)
        line == remove_data(buf, idx)
        cred == split_ticket(line)
    IN  /\ pty_buf' = <<>>
        /\ IF cred.ok
           THEN /\ username' = cred.username
                /\ ticket' = cred.ticket
                /\ pc' = "authenticate"
                /\ UNCHANGED <<exit_code, fail_step>>
           ELSE /\ Fail("no_colon")
                /\ UNCHANGED <<username, ticket>>

\* read_ticket_line once the buffer holds a newline
take_line(buf) ==
    LET idx  == position(buf, Newline)
        line == remove_data(buf, idx)
        rest == consume(consume(buf, idx), 1)
        cred == split_ticket(line)
    IN  /\ pty_buf' = rest
        /\ IF cred.ok
           THEN /\ username' = cred.username
                /\ ticket' = cred.ticket
                /\ pc' = "authenticate"
                /\ UNCHANGED <<exit_code, fail_step>>
           ELSE /\ Fail("no_colon")
                /\ UNCHANGED <<username, ticket>>

\* one pass of the loop of read_ticket_line: poll, read_from, the three checks
read_ticket_line ==
    /\ UNCHANGED pass
    /\ pc = "read_ticket"
    /\ step' = NoStep
    /\ UNCHANGED <<env_vars, net_out, term_pos, tcp_buf, accepts,
                   auth_requests, spawns, loop_vars, ptyLog, auth_status, seen>>
    /\ \/ \* poll or read_from fails
          /\ Fail("read_error")
          /\ UNCHANGED <<net_pos, pty_buf, username, ticket>>
       \/ \* no event, or WouldBlock, and the deadline has passed
          /\ Fail("read_timeout")
          /\ UNCHANGED <<net_pos, pty_buf, username, ticket>>
       \/ \* read_from returns 0
          /\ Fail("closed")
          /\ UNCHANGED <<net_pos, pty_buf, username, ticket>>
       \/ \* read_from returns n > 0
          \E n \in 1..Min(free(pty_buf), Len(client) - net_pos) :
            LET buf == pty_buf \o SubSeq(client, net_pos + 1, net_pos + n)
            IN  /\ net_pos' = net_pos + n
                /\ IF contains(buf, Newline)
                   THEN take_line(buf)
                   ELSE /\ pty_buf' = buf
                        /\ UNCHANGED <<username, ticket>>
                        /\ IF is_full(buf)
                           THEN Fail("full")
                           ELSE \/ Fail("read_timeout")
                                \/ UNCHANGED <<pc, exit_code, fail_step>>

\* std::str::from_utf8, on the bytes the model uses
valid_utf8(s) == \A i \in 1..Len(s) : s[i] < 128

\* a plausible slip: every 2xx answer accepted
auth_ok_2xx(status) == status >= HttpOk /\ status < HttpOk + 100

\* Ok(res) if res.status() == 200
auth_ok(status) == status = HttpOk

authenticate ==
    /\ UNCHANGED pass
    /\ pc = "authenticate"
    /\ step' = NoStep
    /\ UNCHANGED <<env_vars, net_pos, net_out, term_pos, pty_buf,
                   tcp_buf, username, ticket, accepts, spawns, loop_vars, ptyLog,
                   seen>>
    /\ IF ~(valid_utf8(username) /\ valid_utf8(ticket))
       THEN /\ Fail("utf8")
            /\ UNCHANGED <<auth_requests, auth_status>>
       ELSE /\ auth_requests' = auth_requests + 1
            /\ \/ \E status \in HttpStatuses :
                    /\ auth_status' = status
                    /\ IF auth_ok(status)
                       THEN /\ pc' = "write_ok"
                            /\ UNCHANGED <<exit_code, fail_step>>
                       ELSE Fail("auth_status")
               \/ \* the request itself fails
                  /\ Fail("auth_unreachable")
                  /\ UNCHANGED auth_status

\* tcp_handle.write_all(b"OK").expect(..): a failed write panics
write_ok ==
    /\ UNCHANGED pass
    /\ pc = "write_ok"
    /\ step' = NoStep
    /\ UNCHANGED <<exit_code, env_vars, net_pos, term_pos, pty_buf,
                   tcp_buf, username, ticket, fail_step, accepts, auth_requests,
                   spawns, loop_vars, ptyLog, auth_status, seen>>
    /\ \/ /\ net_out' = net_out \o Ack
          /\ pc' = "run_pty"
       \/ \E k \in 0..(Len(Ack) - 1) :
            /\ net_out' = net_out \o SubSeq(Ack, 1, k)
            /\ pc' = "panic"

\* Poll::new, run_pty (PTY::new, spawn, set_size(80, 20)), the two register calls
\* and the initial values of the loop's variables
run_pty ==
    /\ UNCHANGED pass
    /\ pc = "run_pty"
    /\ step' = NoStep
    /\ UNCHANGED <<env_vars, net_pos, net_out, term_pos, pty_buf,
                   tcp_buf, username, ticket, accepts, auth_requests, ptyLog,
                   auth_status, seen>>
    /\ \/ \* Poll::new, PTY::new or spawn fails
          /\ Fail("setup")
          /\ UNCHANGED <<spawns, loop_vars>>
       \/ \* the command runs, set_size or register fails
          /\ spawns' = spawns + 1
          /\ Fail("setup")
          /\ UNCHANGED loop_vars
       \/ /\ spawns' = spawns + 1
          /\ pc' = "poll"
          /\ tcp_writable' = TRUE
          /\ pty_writable' = TRUE
          /\ tcp_readable' = TRUE
          /\ pty_readable' = TRUE
          /\ remaining' = 0
          /\ finished' = FALSE
          /\ UNCHANGED at_finish
          /\ UNCHANGED <<exit_code, fail_step>>

---------------------------------------------------------------------------
(* The proxy event loop of do_main, one action per loop of the source and  *)
(* one step per pass of that loop.                                         *)

gate_vars == <<env_vars, username, ticket, accepts,
               auth_requests, spawns, auth_status>>

\* a plausible slip: the room in the buffers not looked at
poll_nowait_any == tcp_readable \/ pty_readable

\* the condition that selects a poll with a zero timeout
poll_nowait ==
    \/ tcp_readable /\ ~is_full(pty_buf)
    \/ pty_readable /\ ~is_full(tcp_buf)

\* the step read a byte from a source, wrote one to a sink, or changed a
\* readiness flag or the termination flag
Moved ==
    \/ net_pos' # net_pos
    \/ term_pos' # term_pos
    \/ net_out' # net_out
    \/ Len(SelectSeq(ptyLog', LAMBDA e : e[1] = "w"))
          # Len(SelectSeq(ptyLog, LAMBDA e : e[1] = "w"))
    \/ <<tcp_readable, tcp_writable, pty_readable, pty_writable, finished>>'
          # <<tcp_readable, tcp_writable, pty_readable, pty_writable, finished>>

\* pass records, for the pass of the loop under way, whether its poll had a
\* zero timeout and whether a step after the poll and its events has moved
\* anything
Track ==
    pass' = IF pc = "poll"
            THEN [nowait |-> ~finished /\ poll_nowait, moved |-> FALSE]
            ELSE IF pc \in {"fill_pty_buf", "fill_tcp_buf", "drain_tcp_buf",
                            "drain_pty_buf"}
            THEN [pass EXCEPT !.moved = @ \/ Moved]
            ELSE pass

\* while !finished { poll; for event in &events { .. } .. }
poll_events ==
    /\ pc = "poll"
    /\ UNCHANGED <<gate_vars, net_pos, net_out, term_pos, pty_buf, tcp_buf,
                   remaining, ptyLog, seen>>
    /\ IF finished
       THEN /\ pc' = "exit"
            /\ exit_code' = 0
            /\ step' = NoStep
            /\ UNCHANGED <<fail_step, tcp_readable, tcp_writable, pty_readable,
                           pty_writable, finished, at_finish>>
       ELSE /\ step' = [NoStep EXCEPT !.io = IF poll_nowait THEN "poll_zero"
                                                            ELSE "poll_block"]
            /\ \/ \* poll fails
                  /\ Fail("poll_error")
                  /\ UNCHANGED <<tcp_readable, tcp_writable, pty_readable,
                                 pty_writable, finished, at_finish>>
               \/ \E tr, tw, pr, pw, closed \in BOOLEAN :
                    /\ tcp_readable' = (tcp_readable \/ tr)
                    /\ tcp_writable' = (tcp_writable \/ tw)
                    /\ pty_readable' = (pty_readable \/ pr)
                    /\ pty_writable' = (pty_writable \/ pw)
                    /\ finished' = closed
                    /\ at_finish' = IF closed THEN <<term_pos, net_pos>> ELSE at_finish
                    /\ pc' = "fill_pty_buf"
                    /\ UNCHANGED <<exit_code, fail_step>>
    /\ Track

\* a plausible slip: the error returned whether or not finished is set
io_error_fatal(next) == Fail("io_error")

\* an I/O error other than WouldBlock: fatal unless finished, else the loop breaks
io_error(next) ==
    IF finished
    THEN /\ pc' = next
         /\ UNCHANGED <<exit_code, fail_step>>
    ELSE Fail("io_error")

\* a plausible slip: the room in the buffer not looked at
fill_pty_cond_nofull == tcp_readable

\* while tcp_readable && !pty_buf.is_full()
fill_pty_cond == tcp_readable /\ ~is_full(pty_buf)

fill_pty_buf ==
    /\ pc = "fill_pty_buf"
    /\ UNCHANGED <<gate_vars, net_out, term_pos, tcp_buf, tcp_writable,
                   pty_readable, pty_writable, remaining, ptyLog, seen>>
    /\ IF fill_pty_cond
       THEN /\ step' = [NoStep EXCEPT !.io = "tcp_read", !.full = is_full(pty_buf)]
            /\ \/ \E n \in 1..Min(free(pty_buf), Len(client) - net_pos) :
                    /\ pty_buf' = pty_buf \o SubSeq(client, net_pos + 1, net_pos + n)
                    /\ net_pos' = net_pos + n
                    /\ UNCHANGED <<pc, exit_code, fail_step, tcp_readable, finished, at_finish>>
               \/ \* WouldBlock
                  /\ tcp_readable' = FALSE
                  /\ pc' = "fill_tcp_buf"
                  /\ UNCHANGED <<exit_code, fail_step, net_pos, pty_buf, finished, at_finish>>
               \/ /\ io_error("fill_tcp_buf")
                  /\ UNCHANGED <<net_pos, pty_buf, tcp_readable, finished, at_finish>>
               \/ \* read_from returns 0
                  /\ finished' = TRUE
                  /\ at_finish' = IF finished THEN at_finish ELSE <<term_pos, net_pos>>
                  /\ pc' = "fill_tcp_buf"
                  /\ UNCHANGED <<exit_code, fail_step, net_pos, pty_buf, tcp_readable>>
       ELSE /\ pc' = "fill_tcp_buf"
            /\ step' = NoStep
            /\ UNCHANGED <<exit_code, fail_step, net_pos, pty_buf, tcp_readable,
                           finished, at_finish>>
    /\ Track

\* while pty_readable && !tcp_buf.is_full()
fill_tcp_cond == pty_readable /\ ~is_full(tcp_buf)

fill_tcp_buf ==
    /\ pc = "fill_tcp_buf"
    /\ UNCHANGED <<gate_vars, net_pos, net_out, pty_buf, tcp_readable,
                   tcp_writable, pty_writable, remaining, ptyLog, seen>>
    /\ IF fill_tcp_cond
       THEN /\ step' = [NoStep EXCEPT !.io = "pty_read", !.full = is_full(tcp_buf)]
            /\ \/ \E n \in 1..Min(free(tcp_buf), Len(term) - term_pos) :
                    /\ tcp_buf' = tcp_buf \o SubSeq(term, term_pos + 1, term_pos + n)
                    /\ term_pos' = term_pos + n
                    /\ UNCHANGED <<pc, exit_code, fail_step, pty_readable, finished, at_finish>>
               \/ \* WouldBlock
                  /\ pty_readable' = FALSE
                  /\ pc' = "drain_tcp_buf"
                  /\ UNCHANGED <<exit_code, fail_step, term_pos, tcp_buf, finished, at_finish>>
               \/ /\ io_error("drain_tcp_buf")
                  /\ UNCHANGED <<term_pos, tcp_buf, pty_readable, finished, at_finish>>
               \/ \* read_from returns 0
                  /\ finished' = TRUE
                  /\ at_finish' = IF finished THEN at_finish ELSE <<term_pos, net_pos>>
                  /\ pc' = "drain_tcp_buf"
                  /\ UNCHANGED <<exit_code, fail_step, term_pos, tcp_buf, pty_readable>>
       ELSE /\ pc' = "drain_tcp_buf"
            /\ step' = NoStep
            /\ UNCHANGED <<exit_code, fail_step, term_pos, tcp_buf, pty_readable,
                           finished, at_finish>>
    /\ Track

\* a plausible slip: the buffer dropped wholesale after a write
tcp_consume_all(buf, bytes) == <<>>

\* tcp_buf.consume(bytes) after tcp_handle.write returned bytes
tcp_consume(buf, bytes) == consume(buf, bytes)

\* while !tcp_buf.is_empty() && tcp_writable
drain_tcp_buf ==
    /\ pc = "drain_tcp_buf"
    /\ UNCHANGED <<gate_vars, net_pos, term_pos, pty_buf, tcp_readable,
                   pty_readable, pty_writable, remaining, finished, at_finish, ptyLog,
                   seen>>
    /\ IF ~is_empty(tcp_buf) /\ tcp_writable
       THEN /\ step' = [NoStep EXCEPT !.io = "tcp_write"]
            /\ \/ \E bytes \in 1..Len(tcp_buf) :
                    /\ net_out' = net_out \o SubSeq(tcp_buf, 1, bytes)
                    /\ tcp_buf' = tcp_consume(tcp_buf, bytes)
                    /\ UNCHANGED <<pc, exit_code, fail_step, tcp_writable>>
               \/ \* WouldBlock
                  /\ tcp_writable' = FALSE
                  /\ pc' = "drain_pty_buf"
                  /\ UNCHANGED <<exit_code, fail_step, net_out, tcp_buf>>
               \/ /\ io_error("drain_pty_buf")
                  /\ UNCHANGED <<net_out, tcp_buf, tcp_writable>>
       ELSE /\ pc' = "drain_pty_buf"
            /\ step' = NoStep
            /\ UNCHANGED <<exit_code, fail_step, net_out, tcp_buf, tcp_writable>>
    /\ Track

\* a plausible slip: the codec called on every pass
need_codec_always(rem) == TRUE

\* if remaining == 0 { remaining = process_queue(..) }
need_codec(rem) == rem = 0

\* a plausible slip: the whole buffer offered to the pty
write_len_all(rem, buf) == Len(buf)

\* a plausible slip: one byte more than remaining offered
write_len_more(rem, buf) == Min(rem + 1, Len(buf))

\* let len = min(remaining, pty_buf.len())
write_len(rem, buf) == Min(rem, Len(buf))

\* the entries of ptyLog: a byte written, a set_size call, a DATA header taken
\* (its length and the offset in client of its payload)
LogWrites(bytes) == [i \in 1..Len(bytes) |-> <<"w", bytes[i], 0, TRUE>>]

LogResizes(rs) == [i \in 1..Len(rs) |-> <<"r", rs[i][1], rs[i][2], rs[i][3]>>]

\* pty.write(&pty_buf[..len]) and what follows it, from buffer buf, count rem, log
pty_write(buf, rem, log) ==
    LET len == write_len(rem, buf)
    IN  \/ \E bytes \in (IF len = 0 THEN {0} ELSE 1..len) :
             /\ remaining' = rem - bytes
             /\ pty_buf' = consume(buf, bytes)
             /\ ptyLog' = log \o LogWrites(SubSeq(buf, 1, bytes))
             /\ UNCHANGED <<pc, exit_code, fail_step, pty_writable>>
        \/ \* WouldBlock
           /\ pty_writable' = FALSE
           /\ pc' = "poll"
           /\ remaining' = rem
           /\ pty_buf' = buf
           /\ ptyLog' = log
           /\ UNCHANGED <<exit_code, fail_step>>
        \/ /\ io_error("poll")
           /\ remaining' = rem
           /\ pty_buf' = buf
           /\ ptyLog' = log
           /\ UNCHANGED pty_writable

\* while !pty_buf.is_empty() && pty_writable
drain_pty_buf ==
    /\ pc = "drain_pty_buf"
    /\ UNCHANGED <<gate_vars, net_pos, net_out, term_pos, tcp_buf, tcp_readable,
                   tcp_writable, pty_readable, finished, at_finish>>
    /\ IF ~is_empty(pty_buf) /\ pty_writable
       THEN IF need_codec(remaining)
            THEN \E failAt \in 0..Len(process_queue(pty_buf, 0, overflow_checks).resizes) :
                   LET r   == process_queue(pty_buf, failAt, overflow_checks)
                       log == ptyLog \o LogResizes(r.resizes)
                   IN  /\ step' = [io |-> IF r.ret = "some" THEN "pty_write" ELSE "none",
                                   full |-> FALSE, codec |-> r.ret, rem |-> remaining,
                                   before |-> Len(pty_buf), after |-> Len(r.buf),
                                   notes |-> r.notes]
                       /\ seen' = seen \cup r.notes
                       /\ IF r.ret = "some"
                          THEN pty_write(r.buf, r.len,
                                   Append(log, <<"d", r.len, net_pos - Len(r.buf), TRUE>>))
                          ELSE /\ pty_buf' = r.buf
                               /\ ptyLog' = log
                               /\ pc' = IF r.ret = "none" THEN "poll" ELSE "panic"
                               /\ UNCHANGED <<exit_code, fail_step, pty_writable,
                                              remaining>>
            ELSE /\ step' = [NoStep EXCEPT !.io = "pty_write"]
                 /\ UNCHANGED seen
                 /\ pty_write(pty_buf, remaining, ptyLog)
       ELSE /\ pc' = "poll"
            /\ step' = NoStep
            /\ UNCHANGED <<exit_code, fail_step, pty_buf, pty_writable, remaining,
                           ptyLog, seen>>
    /\ Track

Next ==
    \/ listen_and_accept
    \/ read_ticket_line
    \/ authenticate
    \/ write_ok
    \/ run_pty
    \/ poll_events
    \/ fill_pty_buf
    \/ fill_tcp_buf
    \/ drain_tcp_buf
    \/ drain_pty_buf

Spec == Init /\ [][Next]_vars

TypeOK ==
    /\ pc \in {"accept", "read_ticket", "authenticate", "write_ok", "run_pty",
               "poll", "fill_pty_buf", "fill_tcp_buf", "drain_tcp_buf",
               "drain_pty_buf", "exit", "panic"}
    /\ remaining >= 0
    /\ step.codec # "diverged"

---------------------------------------------------------------------------
(* The codec on its own: process_queue called again and again on a buffer  *)
(* nothing is added to, the payload of a DATA message taken out in between *)
(* as the drain loop does.                                                 *)

CodecAlphabet == {10, 48, 49, 58, 97}

\* every buffer of at most n bytes over the alphabet
RECURSIVE SeqsUpTo(_)
SeqsUpTo(n) ==
    IF n = 0 THEN {<<>>}
    ELSE LET shorter == SeqsUpTo(n - 1)
         IN  shorter \cup {Append(q, b) : q \in {x \in shorter : Len(x) = n - 1},
                                          b \in CodecAlphabet}

\* a header, then up to MaxPad bytes without ':', then a tail
PaddedInputs ==
    { h \o [i \in 1..k |-> 97] \o t :
        h \in {<<48, 58>>, <<49, 58>>, <<49, 58, 50, 58>>, <<48, 58, 49>>,
               <<48, 58, 97, 58, 48, 58>>, <<49, 58, 50, 58, 51>>},
        k \in 0..MaxPad,
        t \in {<<>>, <<58>>, <<58, 48, 58, 49, 58, 97>>} }

CodecInputs == SeqsUpTo(MaxLen) \cup PaddedInputs

InitCodec ==
    /\ pc = "codec"
    /\ pty_buf \in CodecInputs
    /\ overflow_checks \in BOOLEAN
    /\ exit_code = 0
    /\ client = pty_buf
    /\ term = <<>>
    /\ net_pos = Len(pty_buf)
    /\ net_out = <<>>
    /\ term_pos = 0
    /\ tcp_buf = <<>>
    /\ username = <<>>
    /\ ticket = <<>>
    /\ fail_step = ""
    /\ accepts = 0
    /\ auth_requests = 0
    /\ spawns = 0
    /\ tcp_readable = FALSE
    /\ tcp_writable = FALSE
    /\ pty_readable = FALSE
    /\ pty_writable = TRUE
    /\ remaining = 0
    /\ finished = FALSE
    /\ ptyLog = <<>>
    /\ auth_status = 0
    /\ step = NoStep
    /\ at_finish = <<0, 0>>
    /\ seen = {}
    /\ pass = NoPass

codec_fixed == <<exit_code, env_vars, net_pos, net_out, term_pos, tcp_buf,
                 username, ticket, fail_step, accepts, auth_requests, spawns,
                 tcp_readable, tcp_writable, pty_readable, pty_writable,
                 finished, auth_status, at_finish, pass>>

\* remaining = process_queue(&mut pty_buf, &mut pty)
codec_call ==
    /\ pc = "codec"
    /\ need_codec(remaining)
    /\ UNCHANGED codec_fixed
    /\ \E failAt \in 0..Len(process_queue(pty_buf, 0, overflow_checks).resizes) :
         LET r == process_queue(pty_buf, failAt, overflow_checks)
         IN  /\ step' = [io |-> "none", full |-> FALSE, codec |-> r.ret,
                         rem |-> remaining, before |-> Len(pty_buf),
                         after |-> Len(r.buf), notes |-> r.notes]
             /\ seen' = seen \cup r.notes
             /\ pty_buf' = r.buf
             /\ ptyLog' = ptyLog \o LogResizes(r.resizes)
             /\ remaining' = IF r.ret = "some" THEN r.len ELSE remaining
             /\ pc' = IF r.ret \in {"some", "none"} THEN "codec" ELSE "panic"

\* the payload written to a pty that takes all that is offered
codec_forward ==
    /\ pc = "codec"
    /\ ~need_codec(remaining)
    /\ ~is_empty(pty_buf)
    /\ UNCHANGED <<pc, codec_fixed, seen>>
    /\ LET len == write_len(remaining, pty_buf)
       IN  /\ step' = [NoStep EXCEPT !.io = "pty_write"]
           /\ remaining' = remaining - len
           /\ pty_buf' = consume(pty_buf, len)
           /\ ptyLog' = ptyLog \o LogWrites(SubSeq(pty_buf, 1, len))

NextCodec == codec_call \/ codec_forward

SpecCodec == InitCodec /\ [][NextCodec]_vars

---------------------------------------------------------------------------
(* Vocabulary of the properties.                                           *)

\* the ticket line, newline included, has been read from the network
LineRead == contains(SubSeq(client, 1, net_pos), Newline)

\* the ticket line the client sends (without its newline)
TicketLine == SubSeq(client, 1, position(client, Newline))

\* number of client bytes that have left pty_buf (taken by the gate, the codec
\* or a write to the pty)
Consumed == net_pos - Len(pty_buf)

IsPrefix(a, b) == Len(a) <= Len(b) /\ SubSeq(b, 1, Len(a)) = a

IsWrite(e) == e[1] = "w"

IsResize(e) == e[1] = "r"

IsData(e) == e[1] = "d"

\* the bytes written to the pty
LogBytes(log) ==
    LET w == SelectSeq(log, IsWrite) IN [i \in 1..Len(w) |-> w[i][2]]

\* number of bytes written to the pty among the first i entries of the log
WritesBefore(log, i) == Len(SelectSeq(SubSeq(log, 1, i), IsWrite))

\* a byte has been proxied in either direction
Proxied == LogBytes(ptyLog) # <<>> \/ Len(net_out) > Len(Ack)

\* The wire grammar of the network -> terminal direction: a number field is
\* one or more digits up to ':'.
HasNum(s) ==
    /\ contains(s, Colon)
    /\ position(s, Colon) > 0
    /\ \A i \in 1..position(s, Colon) : IsDigit(s[i])

NumVal(s) == decimal(SubSeq(s, 1, position(s, Colon)))

AfterNum(s) == consume(s, position(s, Colon) + 1)

\* s is a sequence of complete DATA and RESIZE messages
RECURSIVE WellFormed(_)
WellFormed(s) ==
    IF s = <<>> THEN TRUE
    ELSE IF Len(s) < 2 THEN FALSE
    ELSE IF s[1] = Zero + MSG_TYPE_DATA
    THEN LET f == consume(s, 2)
         IN  /\ HasNum(f)
             /\ Len(AfterNum(f)) >= NumVal(f)
             /\ WellFormed(consume(AfterNum(f), NumVal(f)))
    ELSE IF s[1] = Zero + MSG_TYPE_RESIZE
    THEN LET f == consume(s, 2)
         IN  /\ HasNum(f)
             /\ HasNum(AfterNum(f))
             /\ WellFormed(AfterNum(AfterNum(f)))
    ELSE FALSE

\* The messages of a well-formed s that starts at offset off of client:
\* <<"d", length, offset of the payload, 0>> and <<"r", cols, rows, 0>>.
RECURSIVE Messages(_, _)
Messages(s, off) ==
    IF s = <<>> THEN <<>>
    ELSE LET f == consume(s, 2)
         IN  IF s[1] = Zero + MSG_TYPE_DATA
             THEN LET rest == consume(AfterNum(f), NumVal(f))
                      at   == off + (Len(s) - Len(AfterNum(f)))
                  IN  <<<<"d", NumVal(f), at, 0>>>>
                      \o Messages(rest, off + (Len(s) - Len(rest)))
             ELSE LET rest == AfterNum(AfterNum(f))
                  IN  <<<<"r", NumVal(f), NumVal(AfterNum(f)), 0>>>>
                      \o Messages(rest, off + (Len(s) - Len(rest)))

ProxyStream == consume(client, ProxyStart(client))

ProxyMessages == Messages(ProxyStream, ProxyStart(client))

\* the payload bytes of the messages msgs that lie among the first n bytes of client
RECURSIVE PayloadWithin(_, _)
PayloadWithin(msgs, n) ==
    IF msgs = <<>> THEN <<>>
    ELSE LET m == Head(msgs)
         IN  (IF IsData(m) /\ n > m[3]
              THEN SubSeq(client, m[3] + 1, Min(m[3] + m[2], n))
              ELSE <<>>)
             \o PayloadWithin(Tail(msgs), n)

---------------------------------------------------------------------------
(* The properties.                                                         *)

\* C1: the command is spawned and bytes are proxied only after the ticket
\* service answered 200 and "OK" was written; the order is always: accepted,
\* ticket line read, authentication succeeded, OK written, spawned, first
\* proxied byte.
C1_GateOrder ==
    /\ net_pos > 0 => accepts = 1
    /\ auth_requests > 0 => LineRead
    /\ auth_status # 0 => auth_requests = 1
    /\ net_out # <<>> => auth_status = HttpOk
    /\ spawns > 0 => IsPrefix(Ack, net_out)
    /\ pc \in {"poll", "fill_pty_buf", "fill_tcp_buf", "drain_tcp_buf",
               "drain_pty_buf"} => spawns = 1
    /\ (Proxied \/ term_pos > 0 \/ ptyLog # <<>>) => spawns = 1

\* C1 witness: bytes were proxied in both directions after the whole gate
C1_Witness ==
    /\ LogBytes(ptyLog) # <<>>
    /\ Len(net_out) > Len(Ack)
    /\ spawns = 1
    /\ auth_status = HttpOk

HandshakeFailures ==
    {"accept_timeout", "read_timeout", "closed", "full", "no_colon",
     "auth_status", "auth_unreachable"}

\* C2: a failed handshake step (accept deadline, read deadline, connection
\* closed, buffer full without newline, line without colon, status other than
\* 200, service unreachable) ends the process with exit code 1; OK is never
\* written, the command never spawned, nothing is tried twice.
C2_HandshakeFailure ==
    /\ accepts <= 1 /\ auth_requests <= 1 /\ spawns <= 1
    /\ fail_step \in HandshakeFailures =>
          /\ pc = "exit" /\ exit_code = 1
          /\ net_out = <<>> /\ spawns = 0
    /\ auth_status \notin {0, HttpOk} => fail_step = "auth_status"
    /\ (LineRead /\ ~contains(TicketLine, Colon)) => fail_step = "no_colon"
    /\ (pc = "read_ticket" => ~is_full(pty_buf))
    /\ fail_step = "full" => is_full(pty_buf) /\ ~contains(pty_buf, Newline)
    /\ fail_step = "accept_timeout" => accepts = 0 /\ net_pos = 0
    /\ fail_step \in {"read_timeout", "closed"} => ~LineRead /\ auth_requests = 0

\* C2 witness: the ticket service answered 403 and the process is gone
C2_Witness ==
    /\ auth_status = 403
    /\ fail_step = "auth_status"
    /\ pc = "exit"

\* C3: after the codec returned a DATA message of length L, the next L bytes
\* of the network stream are what is written to the pty next, verbatim, and
\* the codec is called only when remaining = 0.
C3_PayloadOpaque ==
    /\ \A i \in 1..Len(ptyLog) :
          IsData(ptyLog[i]) =>
             \A j \in 1..ptyLog[i][2] :
                i + j <= Len(ptyLog) =>
                   ptyLog[i + j] = <<"w", client[ptyLog[i][3] + j], 0, TRUE>>
    /\ step.codec # "no" => step.rem = 0
    /\ remaining > 0 =>
          \E i \in 1..Len(ptyLog) :
             /\ IsData(ptyLog[i])
             /\ remaining = ptyLog[i][2] - (Len(ptyLog) - i)
             /\ Consumed = ptyLog[i][3] + (Len(ptyLog) - i)

\* C3 witness: the payload "1:" of a DATA message of length 2 reached the pty
\* in two writes, the second at a later pass of the drain loop
C3_Witness ==
    \E i \in 1..Len(ptyLog) :
       /\ ptyLog[i] = <<"d", 2, ProxyStart(client) + 4, TRUE>>
       /\ Len(ptyLog) = i + 2
       /\ ptyLog[i + 1][2] = Zero + 1
       /\ ptyLog[i + 2][2] = Colon
       /\ step.io = "pty_write" /\ step.codec = "no"
       /\ remaining = 0

\* C4: for a well-formed sequence of DATA and RESIZE messages whose headers
\* were complete in the buffer whenever the codec examined them, the bytes
\* written to the pty are exactly the payload bytes consumed so far, in order.
C4_PayloadDelivered ==
    (WellFormed(ProxyStream) /\ "nocolon" \notin seen) =>
        LogBytes(ptyLog) = PayloadWithin(ProxyMessages, Consumed)

\* C4 witness: the three payload bytes of "0:2:1:" "1:2:3:" "0:1:a" were
\* delivered and the resize was made
C4_Witness ==
    /\ client = Cred \o Framed
    /\ "nocolon" \notin seen
    /\ LogBytes(ptyLog) = <<49, 58, 97>>
    /\ \E i \in 1..Len(ptyLog) : IsResize(ptyLog[i])

\* What the pty receives when buf is handed to the drain loop in one piece and
\* every write and resize succeeds: the reference of chunk insensitivity.
RECURSIVE OneChunk(_, _)
OneChunk(buf, checks) ==
    LET r == process_queue(buf, 0, checks)
    IN  LogResizes(r.resizes)
        \o (IF r.ret # "some" THEN <<>>
            ELSE LogWrites(SubSeq(r.buf, 1, Min(r.len, Len(r.buf))))
                 \o (IF r.len >= Len(r.buf) THEN <<>>
                     ELSE OneChunk(consume(r.buf, r.len), checks)))

\* the writes and set_size calls of a log, whether a call succeeded left out
Calls(log) ==
    LET c == SelectSeq(log, LAMBDA e : ~IsData(e))
    IN  [i \in 1..Len(c) |-> <<c[i][1], c[i][2], c[i][3], TRUE>>]

\* C5: however the client's bytes are split into reads, the resize calls and
\* bytes that reach the pty are those of the same bytes arriving in one chunk
\* (at every moment a prefix of them, as more bytes may still arrive).
C5_ChunkInsensitive ==
    IsPrefix(Calls(ptyLog), OneChunk(ProxyStream, overflow_checks))

\* number of payload bytes of the messages before the k-th
RECURSIVE PayloadBefore(_, _)
PayloadBefore(msgs, k) ==
    IF k <= 1 THEN 0
    ELSE PayloadBefore(msgs, k - 1)
         + (IF IsData(msgs[k - 1]) THEN msgs[k - 1][2] ELSE 0)

\* C6: a RESIZE message between two DATA messages takes effect strictly
\* between them: once a payload byte that follows it has been written, the
\* resize has been made, right after the last payload byte that precedes it.
C6_ResizeBetween ==
    WellFormed(ProxyStream) =>
        \A k \in 1..Len(ProxyMessages) :
            (/\ IsResize(ProxyMessages[k])
             /\ Len(LogBytes(ptyLog)) > PayloadBefore(ProxyMessages, k)) =>
                \E i \in 1..Len(ptyLog) :
                    /\ IsResize(ptyLog[i])
                    /\ ptyLog[i][2] = ProxyMessages[k][2]
                    /\ ptyLog[i][3] = ProxyMessages[k][3]
                    /\ WritesBefore(ptyLog, i) = PayloadBefore(ProxyMessages, k)

Returned == step.codec \in {"some", "none"}

\* C7 as stated: once a malformed number field has been met, every call that
\* finds no message and leaves bytes in the buffer leaves fewer than it found.
C7_StrictDecrease ==
    (seen # {} /\ step.codec = "none" /\ step.after > 0) =>
        step.after < step.before

\* C7 amended: a malformed number field never stalls the codec: each call ends
\* within as many passes as bytes are buffered (plus one); a call that returns
\* on two or more bytes leaves fewer, and returns no message only when fewer
\* than two bytes are left or a resize failed; a call on fewer than two bytes
\* leaves them alone.
C7_CodecProgress ==
    /\ step.codec # "diverged"
    /\ (Returned /\ step.before >= 2) => step.after < step.before
    /\ (Returned /\ step.before < 2) =>
          step.after = step.before /\ step.codec = "none"
    /\ (step.codec = "none" /\ step.after >= 2) =>
          (ptyLog # <<>> /\ ~ptyLog[Len(ptyLog)][4])

\* C7 witness: a number field of more than 20 bytes without ':' was skipped
\* and a number field that is no number was dropped, the buffer ran down
C7_Witness ==
    /\ seen = {"nocolon", "parse"}
    /\ step.codec = "none"
    /\ step.before > SkipLen
    /\ step.after < 2

\* the bytes written to the client after the acknowledgment
Sent == consume(net_out, Len(Ack))

\* C8: terminal -> network bytes are forwarded verbatim and in order: what
\* was written to the network is a prefix of what was read from the pty, and
\* what was read is what was written followed by what is buffered.
C8_TermToNet ==
    /\ IsPrefix(Sent, SubSeq(term, 1, term_pos))
    /\ Sent \o tcp_buf = SubSeq(term, 1, term_pos)

\* C8 witness: a partial write: some bytes went out, others stay buffered
C8_Witness ==
    /\ step.io = "tcp_write"
    /\ pc = "drain_tcp_buf"
    /\ Sent # <<>>
    /\ tcp_buf # <<>>

\* C9: no buffer is longer than its capacity, a read is attempted only while
\* its buffer is not full, so a full buffer stops the reads from its source.
C9_Backpressure ==
    /\ Len(pty_buf) <= BufCap
    /\ Len(tcp_buf) <= BufCap
    /\ step.io \in {"tcp_read", "pty_read"} => ~step.full
    /\ pc = "read_ticket" => ~is_full(pty_buf)

\* C9 witness: the network -> terminal buffer is full, the network is still
\* flagged readable and has more to give, and the fill loop has stopped
C9_Witness ==
    /\ is_full(pty_buf)
    /\ tcp_readable
    /\ net_pos < Len(client)
    /\ pc = "fill_tcp_buf"

\* C10: the loop ends (exit code 0) only after termination was requested, and
\* every byte that was in a buffer at that moment has been written to its sink.
C10_GracefulShutdown ==
    (pc = "exit" /\ exit_code = 0) =>
        /\ finished
        /\ Len(Sent) >= at_finish[1]
        /\ (WellFormed(ProxyStream) /\ "nocolon" \notin seen) =>
              IsPrefix(PayloadWithin(ProxyMessages, at_finish[2]), LogBytes(ptyLog))

---------------------------------------------------------------------------
(* read_ticket_line on its own: every client of up to MaxLen bytes over the *)
(* alphabet of the codec (which holds ':' and the newline), the connection  *)
(* accepted, the line read in every way it can be cut into reads.           *)

InitTicket ==
    /\ pc = "read_ticket"
    /\ client \in SeqsUpTo(MaxLen)
    /\ overflow_checks = FALSE
    /\ exit_code = 0
    /\ term = <<>>
    /\ net_pos = 0
    /\ net_out = <<>>
    /\ term_pos = 0
    /\ pty_buf = <<>>
    /\ tcp_buf = <<>>
    /\ username = <<>>
    /\ ticket = <<>>
    /\ fail_step = ""
    /\ accepts = 1
    /\ auth_requests = 0
    /\ spawns = 0
    /\ tcp_readable = FALSE
    /\ tcp_writable = FALSE
    /\ pty_readable = FALSE
    /\ pty_writable = FALSE
    /\ remaining = 0
    /\ finished = FALSE
    /\ ptyLog = <<>>
    /\ auth_status = 0
    /\ step = NoStep
    /\ at_finish = <<0, 0>>
    /\ seen = {}
    /\ pass = NoPass

SpecTicket == InitTicket /\ [][read_ticket_line]_vars

---------------------------------------------------------------------------
(* remove_number on its own: one call on every short buffer over the       *)
(* alphabet of the codec and on runs of up to MaxPad + 20 bytes without    *)
(* ':' (two skips of 20 bytes), a ':' or a number after some of them.      *)

ScanInputs ==
    SeqsUpTo(MaxLen)
    \cup { [i \in 1..k |-> 97] \o t :
             k \in 0..(MaxPad + SkipLen),
             t \in {<<>>, <<Colon>>, <<Colon, 49, Colon>>, <<49>>} }
    \cup { <<49, Colon>> \o [i \in 1..k |-> 97] : k \in 0..MaxPad }

InitScan ==
    /\ pc = "scan"
    /\ pty_buf \in ScanInputs
    /\ client = pty_buf
    /\ net_pos = Len(pty_buf)
    /\ overflow_checks = FALSE
    /\ exit_code = 0
    /\ term = <<>>
    /\ net_out = <<>>
    /\ term_pos = 0
    /\ tcp_buf = <<>>
    /\ username = <<>>
    /\ ticket = <<>>
    /\ fail_step = ""
    /\ accepts = 0
    /\ auth_requests = 0
    /\ spawns = 0
    /\ tcp_readable = FALSE
    /\ tcp_writable = FALSE
    /\ pty_readable = FALSE
    /\ pty_writable = TRUE
    /\ remaining = 0
    /\ finished = FALSE
    /\ ptyLog = <<>>
    /\ auth_status = 0
    /\ step = NoStep
    /\ at_finish = <<0, 0>>
    /\ seen = {}
    /\ pass = NoPass

\* if let Some(len) = remove_number(buf)
scan_call ==
    /\ pc = "scan"
    /\ UNCHANGED <<codec_fixed, ptyLog>>
    /\ LET n == remove_number(pty_buf)
       IN  /\ pc' = "scanned"
           /\ pty_buf' = n.buf
           /\ remaining' = n.val
           /\ seen' = {n.why}
           /\ step' = [NoStep EXCEPT !.codec = IF n.some THEN "some" ELSE "none",
                                     !.before = Len(pty_buf),
                                     !.after = Len(n.buf),
                                     !.notes = {n.why}]

SpecScan == InitScan /\ [][scan_call]_vars

---------------------------------------------------------------------------
(* Steady-state error handling, the ticket line, the codec's corners.      *)

InLoop == pc \in {"poll", "fill_pty_buf", "fill_tcp_buf", "drain_tcp_buf", "drain_pty_buf"}

\* a readiness flag goes from set to cleared: the read or write gave WouldBlock
Cleared(flag, flagNext) == InLoop /\ flag /\ ~flagNext

WouldBlockStep ==
    \/ Cleared(tcp_readable, tcp_readable')
    \/ Cleared(pty_readable, pty_readable')
    \/ Cleared(tcp_writable, tcp_writable')
    \/ Cleared(pty_writable, pty_writable')

FlagsCleared ==
    (IF Cleared(tcp_readable, tcp_readable') THEN 1 ELSE 0)
    + (IF Cleared(pty_readable, pty_readable') THEN 1 ELSE 0)
    + (IF Cleared(tcp_writable, tcp_writable') THEN 1 ELSE 0)
    + (IF Cleared(pty_writable, pty_writable') THEN 1 ELSE 0)

\* a step that left a read or write loop though its condition still holds and
\* no flag was cleared: the read or write gave an error that was let pass (or,
\* for a read, gave 0 bytes)
LetPass ==
    \/ pc = "fill_pty_buf" /\ fill_pty_cond /\ pc' = "fill_tcp_buf" /\ tcp_readable'
    \/ pc = "fill_tcp_buf" /\ fill_tcp_cond /\ pc' = "drain_tcp_buf" /\ pty_readable'
    \/ pc = "drain_tcp_buf" /\ ~is_empty(tcp_buf) /\ tcp_writable
          /\ pc' = "drain_pty_buf" /\ tcp_writable'
    \/ pc = "drain_pty_buf" /\ pty_writable /\ pty_writable' /\ pc' = "poll"
          /\ remaining' > 0 /\ ~is_empty(pty_buf')

\* C11: in the proxy loop a WouldBlock never ends the process and clears one
\* readiness flag, the one of the read or write that gave it, moving no byte;
\* an I/O error ends the process with exit code 1 only while termination has
\* not been requested; once it has been requested no step makes the exit code
\* 1, and an error is let pass only then.
C11_IoErrors ==
    [][ /\ WouldBlockStep =>
              /\ pc' \notin {"exit", "panic"}
              /\ exit_code' = exit_code
              /\ FlagsCleared = 1
              /\ UNCHANGED <<finished, net_pos, term_pos, net_out, tcp_buf>>
              /\ LogBytes(ptyLog') = LogBytes(ptyLog)
        /\ (InLoop /\ pc # "poll" /\ exit_code' = 1) =>
              /\ ~finished
              /\ fail_step' = "io_error"
              /\ pc' = "exit"
        /\ (InLoop /\ finished) => exit_code' = 0
        /\ LetPass => finished'
      ]_vars

\* C11 witness: a write to the client gave an error after termination was
\* requested (the buffer not empty, the flag still set) and the loop ended
\* with exit code 0
C11_Witness ==
    /\ pc = "exit" /\ exit_code = 0
    /\ finished
    /\ tcp_writable /\ ~is_empty(tcp_buf)

\* C12: a first line with at least one ':' gives username = the bytes before
\* its first ':' and ticket = all bytes after that ':' up to the newline,
\* further colons included; a line without ':' is rejected with an error.
C12_TicketSplit ==
    /\ (LineRead /\ contains(TicketLine, Colon)) =>
          /\ pc = "authenticate" /\ fail_step = ""
          /\ username \o <<Colon>> \o ticket = TicketLine
          /\ ~contains(username, Colon)
    /\ (LineRead /\ ~contains(TicketLine, Colon)) =>
          /\ pc = "exit" /\ exit_code = 1 /\ fail_step = "no_colon"
          /\ username = <<>> /\ ticket = <<>>
    /\ ~LineRead => (username = <<>> /\ ticket = <<>> /\ pc # "authenticate")

\* C12 witness: the line "a::" was split into "a" and ":"
C12_Witness ==
    /\ pc = "authenticate"
    /\ username = <<97>>
    /\ ticket = <<Colon>>

\* a call of the codec on a buffer of two or more bytes whose first byte is
\* neither the DATA tag nor the RESIZE tag
UnknownTagCall ==
    /\ pc = "codec"
    /\ need_codec(remaining)
    /\ Len(pty_buf) >= 2
    /\ pty_buf[1] \notin {Zero + MSG_TYPE_DATA, Zero + MSG_TYPE_RESIZE}

\* C13: for every leading byte other than '0' and '1' (the ping tag '2', any
\* other digit, any non-digit, bytes below '0' included) the codec drops that
\* one byte and goes on with the next: the call ends as a call on the rest of
\* the buffer would, and the process is not aborted.
C13_UnknownTagSkipped ==
    [][ UnknownTagCall =>
          /\ pc' = "codec"
          /\ step'.codec \in {"some", "none"}
          /\ \E failAt \in 0..Len(pty_buf) :
                LET r == process_queue(Tail(pty_buf), failAt, FALSE)
                IN  /\ pty_buf' = r.buf
                    /\ step'.codec = r.ret
                    /\ ptyLog' = ptyLog \o LogResizes(r.resizes)
      ]_vars

\* a number field that ends with ':' and is no decimal number
BadField(f) == contains(f, Colon) /\ ~HasNum(f)

\* a call of the codec on a buffer that starts with a DATA or RESIZE header
\* whose first number field is bad, or with a RESIZE header whose second is
BadFieldCall ==
    /\ pc = "codec"
    /\ need_codec(remaining)
    /\ Len(pty_buf) >= 2
    /\ pty_buf[1] \in {Zero + MSG_TYPE_DATA, Zero + MSG_TYPE_RESIZE}
    /\ LET f == consume(pty_buf, 2)
       IN  \/ BadField(f)
           \/ pty_buf[1] = Zero + MSG_TYPE_RESIZE /\ HasNum(f) /\ BadField(AfterNum(f))

\* what follows the bad field and its ':'
AfterBadField(buf) ==
    LET f == consume(buf, 2)
    IN  IF BadField(f) THEN AfterNum(f) ELSE AfterNum(AfterNum(f))

\* C14 as stated: a number field that ends with ':' and does not parse halts
\* the pass: the call extracts no message and the bytes from the bad field on
\* are still in the buffer afterwards.
C14_ParseHalts ==
    [][ BadFieldCall =>
          /\ step'.codec = "none"
          /\ ptyLog' = ptyLog
          /\ pty_buf' = consume(pty_buf, 2)
      ]_vars

\* C14 amended: a number field that ends with ':' and does not parse is
\* dropped with its header and its ':', and the same call goes on with the
\* byte after that ':': it ends as a call on the rest of the buffer would,
\* further messages included.
C14_ParseResync ==
    [][ BadFieldCall =>
          \E failAt \in 0..Len(pty_buf) :
             LET r == process_queue(AfterBadField(pty_buf), failAt, overflow_checks)
             IN  /\ step'.codec = r.ret
                 /\ pty_buf' = r.buf
                 /\ ptyLog' = ptyLog \o LogResizes(r.resizes)
                 /\ remaining' = (IF r.ret = "some" THEN r.len ELSE remaining)
                 /\ "parse" \in step'.notes
      ]_vars

\* C14 witness: a call dropped a field that is no number and returned the DATA
\* header that follows it
C14_Witness ==
    /\ pc = "codec"
    /\ "parse" \in step.notes
    /\ step.codec = "some"
    /\ remaining = 1
    /\ pty_buf = <<97>>

\* C15: every poll of the loop has a zero timeout exactly when the network is
\* readable and the network -> terminal buffer has room, or the terminal is
\* readable and the terminal -> network buffer has room, and no timeout
\* otherwise; and the loop does not spin: a pass whose poll had a zero timeout
\* has, when it comes to the next poll, moved a byte or changed a readiness
\* flag or the termination flag.
C15_PollTimeout ==
    [][ /\ (pc = "poll" /\ ~finished) =>
              LET room == \/ tcp_readable /\ Len(pty_buf) < BufCap
                          \/ pty_readable /\ Len(tcp_buf) < BufCap
              IN  /\ (room /\ pc' # "exit") => step'.io = "poll_zero"
                  /\ (~room /\ pc' # "exit") => step'.io = "poll_block"
                  /\ pass'.nowait = room
        /\ (pc' = "poll" /\ ~finished' /\ pass'.nowait) => pass'.moved
      ]_vars

\* C15 witness: a pass that polled with a zero timeout found nothing to read
\* (both reads gave WouldBlock) and nothing to write, and is back at the poll,
\* which will block
C15_Witness ==
    /\ pc = "poll" /\ ~finished
    /\ pass.nowait /\ pass.moved
    /\ ~tcp_readable /\ ~pty_readable
    /\ net_pos = ProxyStart(client) /\ term_pos = 0
    /\ ~poll_nowait

\* the last call of the codec ended on a set_size that failed
ResizeFailed(log, st) ==
    /\ st.codec \in {"none", "panic"}
    /\ log # <<>>
    /\ IsResize(log[Len(log)])
    /\ ~log[Len(log)][4]

\* nothing is left for the drain loop to do with the buffer
Quiescent ==
    \/ is_empty(pty_buf)
    \/ need_codec(remaining) /\ Len(pty_buf) < 2

Removed == Len(client) - Len(pty_buf)

\* what is left is the end of what was given
IsRest == pty_buf = consume(client, Removed)

\* C17 as stated: the scanner drops 20 bytes at a time, and only from a buffer
\* without ':' that holds more than 20 bytes, so a scan that ends without a
\* number leaves at most 20 bytes and has removed a multiple of 20 bytes.
C17_ScanLeavesTwenty ==
    (pc = "scanned" /\ step.codec = "none") =>
        /\ IsRest
        /\ Len(pty_buf) <= SkipLen
        /\ Removed % SkipLen = 0

\* C17 amended: a scan of a buffer without ':' removes 20 bytes at a time
\* while more than 20 bytes are left and ends without a number, at most 20
\* bytes left; a scan of a buffer with a ':' removes the field up to and
\* with its first ':', nothing else, and ends with the number the field
\* holds, or without a number when the field is none.
C17_ScanResync ==
    pc = "scanned" =>
        /\ IsRest
        /\ ~contains(client, Colon) =>
              /\ step.codec = "none" /\ step.notes = {"nocolon"}
              /\ Removed % SkipLen = 0
              /\ Len(pty_buf) <= SkipLen
              /\ Len(client) > 0 => Len(pty_buf) > 0
        /\ contains(client, Colon) =>
              /\ Removed = position(client, Colon) + 1
              /\ HasNum(client) =>
                    step.codec = "some" /\ remaining = NumVal(client)
              /\ ~HasNum(client) =>
                    step.codec = "none" /\ step.notes = {"parse"}

\* C17 witness: 42 bytes without ':' were scanned, 40 dropped in two skips
C17_Witness ==
    /\ pc = "scanned"
    /\ Len(client) = 2 * SkipLen + 2
    /\ ~contains(client, Colon)
    /\ Removed = 2 * SkipLen

\* the bytes a step wrote to the pty
Written == Len(LogBytes(ptyLog')) - Len(LogBytes(ptyLog))

\* the step took a DATA header from the buffer
TookData == Len(SelectSeq(ptyLog', IsData)) > Len(SelectSeq(ptyLog, IsData))

\* the length of the DATA header the step took
TakenLen == LET d == SelectSeq(ptyLog', IsData) IN d[Len(d)][2]

\* C18: remaining is a count that never goes below 0: a write to the pty is
\* offered at most min(remaining, buffer length) bytes, the bytes it takes
\* from the network -> terminal buffer are the bytes subtracted from
\* remaining, and remaining changes only by being set from a parsed DATA
\* length when it is 0 or by being decreased by the result of a write.
C18_RemainingCount ==
    [][ /\ remaining >= 0 /\ remaining' >= 0
        /\ pc \notin {"drain_pty_buf", "run_pty"} => remaining' = remaining
        /\ pc = "run_pty" => remaining' = 0
        /\ pc = "drain_pty_buf" =>
              /\ TookData => (remaining = 0 /\ step'.codec = "some")
              /\ step'.codec = "some" => TookData
              /\ LET base == IF TookData THEN TakenLen ELSE remaining
                     held == IF step'.codec = "no" THEN Len(pty_buf) ELSE step'.after
                 IN  /\ Written >= 0
                     /\ Written <= base /\ Written <= held
                     /\ remaining' = base - Written
                     /\ Len(pty_buf') = held - Written
                     /\ LogBytes(ptyLog') =
                           LogBytes(ptyLog)
                           \o SubSeq(pty_buf, Len(pty_buf) - held + 1,
                                      Len(pty_buf) - held + Written)
      ]_vars

\* C18 witness: a DATA header of length 2 was taken and one of its two payload
\* bytes written: one byte remains to forward
C18_Witness ==
    /\ pc = "drain_pty_buf"
    /\ step.codec = "some"
    /\ remaining = 1
    /\ Len(LogBytes(ptyLog)) = 1
    /\ ~is_empty(pty_buf)

\* C19: bytes the client sends behind the newline of its ticket line and that
\* are read with the line are not lost: the read of the ticket line takes the
\* line and its newline out of the buffer, nothing else; the buffer is the
\* network -> terminal buffer afterwards, so that it always holds the bytes of
\* the client between those taken out and those not yet read, in order, and
\* the codec starts with the first byte behind the newline.
C19_TrailingBytesKept ==
    [][ /\ pty_buf' = SubSeq(client', Consumed' + 1, net_pos')
        /\ ~LineRead' => Consumed' = 0
        /\ (LineRead' /\ pc' \in {"authenticate", "write_ok", "run_pty"}) =>
              Consumed' = ProxyStart(client')
        /\ (LineRead /\ pc # "drain_pty_buf") => Consumed' = Consumed
        /\ (pc = "drain_pty_buf" /\ ptyLog = <<>> /\ seen = {}
              /\ Consumed = ProxyStart(client)) =>
              (step'.codec = "no" \/ step'.before = net_pos - ProxyStart(client))
      ]_vars

\* C19 witness: "u:t" and its newline came in one read with "0:", the start of
\* the DATA message behind them, and "0:" is what the buffer holds after
\* read_ticket_line
C19_Witness ==
    /\ pc = "authenticate"
    /\ client = Cred \o Short
    /\ net_pos = Len(Cred) + 2
    /\ pty_buf = <<48, 58>>

\* the buffer starts with a complete message: a RESIZE header, or a DATA
\* header with all of its payload
CompleteMessage(s) ==
    /\ Len(s) >= 2
    /\ LET f == consume(s, 2)
       IN  \/ /\ s[1] = Zero + MSG_TYPE_DATA
              /\ HasNum(f)
              /\ Len(AfterNum(f)) >= NumVal(f)
           \/ /\ s[1] = Zero + MSG_TYPE_RESIZE
              /\ HasNum(f)
              /\ HasNum(AfterNum(f))

\* C20: when the loop enters a poll without timeout, nothing that could be done
\* without a new event is pending: the terminal -> network buffer is empty or
\* the network is not writable, and the network -> terminal buffer holds
\* neither payload bytes still to forward (remaining > 0) nor a complete
\* message, or the terminal is not writable.
C20_NoLostWakeup ==
    (pc = "poll" /\ ~finished /\ ~poll_nowait) =>
        /\ is_empty(tcp_buf) \/ ~tcp_writable
        /\ \/ ~pty_writable
           \/ /\ ~(remaining > 0 /\ ~is_empty(pty_buf))
              /\ ~(remaining = 0 /\ CompleteMessage(pty_buf))

====
